---- MODULE Spec2Model ----
(***************************************************************************)
(* Model of where_i_am (src/src/lib.rs): a one-shot loopback HTTP server   *)
(* that serves a geolocation page, accepts one location report on          *)
(* POST /update and returns [latitude, longitude, accuracy] to the caller. *)
(***************************************************************************)
EXTENDS Integers, Sequences, FiniteSets, TLC

(* ---------------------------------------------------------------- bounds *)
\* total number of requests that reach the listener during one session
MaxReqs == 3

\* f64 values are kept as fixed-point integers: value * Scale
Scale == 10000

(* ------------------------------------------------------------ JSON input *)
\* a JSON value token as the decoder sees it
IntTok(n)   == [k |-> "int",   v |-> n]     \* integer literal n
FloatTok(x) == [k |-> "float", v |-> x]     \* literal with fraction/exponent, x = value * Scale
StrTok      == [k |-> "str",   v |-> 0]     \* a JSON string
NullTok     == [k |-> "null",  v |-> 0]     \* JSON null

Fields == {"latitude", "longitude", "accuracy", "timestamp"}

Garbage    == [kind |-> "garbage", members |-> {}, elems |-> <<>>]
Object(ms) == [kind |-> "object",  members |-> ms, elems |-> <<>>]
Array(es)  == [kind |-> "array",   members |-> {}, elems |-> es]

Report(lat, lon, acc, ts) ==
    { <<"latitude", lat>>, <<"longitude", lon>>, <<"accuracy", acc>>, <<"timestamp", ts>> }

Without(ms, f) == { m \in ms : m[1] # f }

\* scenario A of the specification: 37.5665, 126.9780, 12.5
SeoulReport == Report(FloatTok(375665), FloatTok(1269780), FloatTok(125000), IntTok(1700))
\* integer literals outside the geographic ranges, and a member the struct does not have
FarReport   == Report(IntTok(91), IntTok(-181), FloatTok(-10000), IntTok(1701)) \cup {<<"speed", NullTok>>}

Bodies ==
    { Garbage,
      Object(SeoulReport),
      Object(FarReport),
      Object(Without(SeoulReport, "timestamp")),
      Object({<<"latitude", StrTok>>}),
      Object(Without(SeoulReport, "timestamp") \cup {<<"timestamp", FloatTok(17000000)>>}),
      Array(<<IntTok(10), IntTok(20), IntTok(5), IntTok(1702)>>) }

NoBody == Garbage

Req(m, u, c, b) == [method |-> m, url |-> u, ctype |-> c, body |-> b]

NoReq == Req("none", "", "", NoBody)

Requests ==
    { Req("GET", "/", "", NoBody),
      Req("OPTIONS", "/update", "", NoBody),
      Req("GET", "/update", "", NoBody),
      Req("POST", "/", "application/json", Object(SeoulReport)),
      Req("OPTIONS", "/other", "", NoBody) }
    \cup { Req("POST", "/update", "application/json", b) : b \in Bodies }
    \cup { Req("POST", "/update", "text/plain", b) : b \in {Object(SeoulReport)} }

(* ----------------------------------------------------------- LocationData *)
\* serde: an f64 field takes any JSON number
IsF64(t) == t.k \in {"int", "float"}
AsF64(t) == IF t.k = "int" THEN t.v * Scale ELSE t.v

\* serde: an i64 field takes an integer literal only
IsI64(t) == t.k = "int"
AsI64(t) == t.v

FieldOk(f, t) == IF f = "timestamp" THEN IsI64(t) ELSE IsF64(t)
FieldVal(f, t) == IF f = "timestamp" THEN AsI64(t) ELSE AsF64(t)

DecodeErr == [ok |-> FALSE, latitude |-> 0, longitude |-> 0, accuracy |-> 0, timestamp |-> 0]

Values(ms, f) == { m[2] : m \in { x \in ms : x[1] = f } }

The(S) == CHOOSE x \in S : TRUE

\* a decoder that fills a missing timestamp with a default instead of failing
DecodeObject_defaultTimestamp(ms) ==
    IF \A f \in Fields \ {"timestamp"} : Cardinality(Values(ms, f)) = 1 /\ FieldOk(f, The(Values(ms, f)))
    THEN [ok |-> TRUE,
          latitude  |-> FieldVal("latitude",  The(Values(ms, "latitude"))),
          longitude |-> FieldVal("longitude", The(Values(ms, "longitude"))),
          accuracy  |-> FieldVal("accuracy",  The(Values(ms, "accuracy"))),
          timestamp |-> 0]
    ELSE DecodeErr

DecodeObject(ms) ==
    IF \A f \in Fields : Cardinality(Values(ms, f)) = 1 /\ FieldOk(f, The(Values(ms, f)))
    THEN [ok |-> TRUE,
          latitude  |-> FieldVal("latitude",  The(Values(ms, "latitude"))),
          longitude |-> FieldVal("longitude", The(Values(ms, "longitude"))),
          accuracy  |-> FieldVal("accuracy",  The(Values(ms, "accuracy"))),
          timestamp |-> FieldVal("timestamp", The(Values(ms, "timestamp")))]
    ELSE DecodeErr

DecodeArray(es) ==
    IF Len(es) = 4 /\ IsF64(es[1]) /\ IsF64(es[2]) /\ IsF64(es[3]) /\ IsI64(es[4])
    THEN [ok |-> TRUE,
          latitude  |-> AsF64(es[1]),
          longitude |-> AsF64(es[2]),
          accuracy  |-> AsF64(es[3]),
          timestamp |-> AsI64(es[4])]
    ELSE DecodeErr

\* serde_json::from_str::<LocationData>(&content)
Decode(b) ==
    CASE b.kind = "object" -> DecodeObject(b.members)
      [] b.kind = "array"  -> DecodeArray(b.elems)
      [] OTHER             -> DecodeErr

(* ------------------------------------------------------------- responses *)
HTML_CONTENT == "<!DOCTYPE html> ... navigator.geolocation.getCurrentPosition ... fetch('/update') ..."

Resp(s, b, h) == [status |-> s, body |-> b, headers |-> h]

PageResponse == Resp(200, HTML_CONTENT, {<<"Content-Type", "text/html; charset=utf-8">>})

OkResponse ==
    Resp(200, "{\"status\":\"ok\"}",
         {<<"Content-Type", "application/json">>, <<"Access-Control-Allow-Origin", "*">>})

InvalidResponse == Resp(400, "Invalid JSON", {})

\* a preflight answer that forgets the allowed headers
OptionsResponse_noAllowHeaders ==
    Resp(200, "",
         {<<"Access-Control-Allow-Origin", "*">>,
          <<"Access-Control-Allow-Methods", "POST, OPTIONS">>})

OptionsResponse ==
    Resp(200, "",
         {<<"Access-Control-Allow-Origin", "*">>,
          <<"Access-Control-Allow-Methods", "POST, OPTIONS">>,
          <<"Access-Control-Allow-Headers", "Content-Type">>})

NotFoundResponse == Resp(404, "Not Found", {})

(* --------------------------------------------------------------- routing *)
\* a router that looks at the path only
Route_byPath(r) ==
    CASE r.url = "/"       -> "page"
      [] r.url = "/update" -> IF r.method = "OPTIONS" THEN "preflight" ELSE "update"
      [] OTHER             -> "not_found"

Route(r) ==
    CASE r.method = "GET"     /\ r.url = "/"       -> "page"
      [] r.method = "POST"    /\ r.url = "/update" -> "update"
      [] r.method = "OPTIONS" /\ r.url = "/update" -> "preflight"
      [] OTHER                                     -> "not_found"

(* ---------------------------------------------------------------- result *)
None    == [some |-> FALSE, val |-> <<>>]
Some(v) == [some |-> TRUE,  val |-> v]

\* a field mix-up: the capture time in place of the accuracy
ResultVec_timestamp(location) == <<location.latitude, location.longitude, location.timestamp>>

ResultVec(location) == <<location.latitude, location.longitude, location.accuracy>>

(* ----------------------------------------------------------------- state *)
VARIABLES
    pc,            \* position of the caller's thread inside where_i_am
    lpc,           \* position of the browser launcher thread
    queue,         \* requests received by the listener, not yet taken by the loop
    cur,           \* the request the loop is handling
    result,        \* let mut result: Option<Vec<f64>>
    retval,        \* the vector where_i_am returned
    log,           \* answered requests with their responses, in order
    lastWrite,     \* whether the last response reached the client
    browserOpen,   \* outcome of the browser open command
    browserClose,  \* outcome of the browser close command
    closeCount     \* number of browser close commands issued

vars == <<pc, lpc, queue, cur, result, retval, log, lastWrite, browserOpen, browserClose, closeCount>>

Handled == [i \in 1..Len(log) |-> log[i].req]

\* every request received so far, in receipt order
Received == Handled \o (IF cur = NoReq THEN <<>> ELSE <<cur>>) \o queue

ListenerBound == pc \in {"accept", "handle", "respond_ok", "close", "return"}

LoopExited == pc \in {"return", "done"}

SessionState ==
    CASE pc \in {"spawn", "bind"} -> "AwaitingConnection"
      [] pc = "panicked"          -> "BindFailed"
      [] LoopExited /\ result.some  -> "Completed"
      [] LoopExited /\ ~result.some -> "Terminated"
      [] OTHER                    -> "Serving"

Init ==
    /\ pc = "spawn"
    /\ lpc = "idle"
    /\ queue = <<>>
    /\ cur = NoReq
    /\ result = None
    /\ retval = <<>>
    /\ log = <<>>
    /\ lastWrite = "none"
    /\ browserOpen = "none"
    /\ browserClose = "none"
    /\ closeCount = 0

(* ------------------------------------------------------- launcher thread *)
SpawnLauncher ==
    /\ pc = "spawn"
    /\ pc' = "bind"
    /\ lpc' = "sleep"
    /\ UNCHANGED <<queue, cur, result, retval, log, lastWrite, browserOpen, browserClose, closeCount>>

LaunchBrowser ==
    /\ lpc = "sleep"
    /\ lpc' = "done"
    /\ \E ok \in BOOLEAN : browserOpen' = IF ok THEN "spawned" ELSE "failed"
    /\ UNCHANGED <<pc, queue, cur, result, retval, log, lastWrite, browserClose, closeCount>>

(* ---------------------------------------------------------- caller thread *)
\* a bind whose failure is swallowed: the call goes on to return the empty vector
Bind_swallowError ==
    /\ pc = "bind"
    /\ \E ok \in BOOLEAN : pc' = IF ok THEN "accept" ELSE "return"
    /\ UNCHANGED <<lpc, queue, cur, result, retval, log, lastWrite, browserOpen, browserClose, closeCount>>

Bind ==
    /\ pc = "bind"
    /\ \E ok \in BOOLEAN : pc' = IF ok THEN "accept" ELSE "panicked"
    /\ UNCHANGED <<lpc, queue, cur, result, retval, log, lastWrite, browserOpen, browserClose, closeCount>>

Arrive ==
    /\ ListenerBound
    /\ Len(Received) < MaxReqs
    /\ \E r \in Requests : queue' = Append(queue, r)
    /\ UNCHANGED <<pc, lpc, cur, result, retval, log, lastWrite, browserOpen, browserClose, closeCount>>

\* a loop that takes the newest waiting request first
Recv_newestFirst ==
    /\ pc = "accept"
    /\ queue # <<>>
    /\ cur' = queue[Len(queue)]
    /\ queue' = SubSeq(queue, 1, Len(queue) - 1)
    /\ pc' = "handle"
    /\ UNCHANGED <<lpc, result, retval, log, lastWrite, browserOpen, browserClose, closeCount>>

Recv ==
    /\ pc = "accept"
    /\ queue # <<>>
    /\ cur' = Head(queue)
    /\ queue' = Tail(queue)
    /\ pc' = "handle"
    /\ UNCHANGED <<lpc, result, retval, log, lastWrite, browserOpen, browserClose, closeCount>>

StreamEnd ==
    /\ pc = "accept"
    /\ pc' = "return"
    /\ UNCHANGED <<lpc, queue, cur, result, retval, log, lastWrite, browserOpen, browserClose, closeCount>>

\* request.respond(response).ok(): the write may fail, the error is dropped
Respond(resp) ==
    /\ log' = Append(log, [req |-> cur, resp |-> resp])
    /\ cur' = NoReq
    /\ \E w \in BOOLEAN : lastWrite' = IF w THEN "written" ELSE "failed"

\* a handler that serves the page to the first GET / only
HandleGet_once ==
    /\ pc = "handle"
    /\ Route(cur) = "page"
    /\ IF \E i \in DOMAIN log : Route(log[i].req) = "page"
       THEN Respond(NotFoundResponse)
       ELSE Respond(PageResponse)
    /\ pc' = "accept"
    /\ UNCHANGED <<lpc, queue, result, retval, browserOpen, browserClose, closeCount>>

HandleGet ==
    /\ pc = "handle"
    /\ Route(cur) = "page"
    /\ Respond(PageResponse)
    /\ pc' = "accept"
    /\ UNCHANGED <<lpc, queue, result, retval, browserOpen, browserClose, closeCount>>

\* a handler that leaves the loop before answering
HandlePostOk_breakFirst ==
    /\ pc = "handle"
    /\ Route(cur) = "update"
    /\ Decode(cur.body).ok
    /\ result' = Some(ResultVec(Decode(cur.body)))
    /\ pc' = "return"
    /\ UNCHANGED <<lpc, queue, cur, retval, log, lastWrite, browserOpen, browserClose, closeCount>>

HandlePostOk ==
    /\ pc = "handle"
    /\ Route(cur) = "update"
    /\ Decode(cur.body).ok
    /\ result' = Some(ResultVec(Decode(cur.body)))
    /\ pc' = "respond_ok"
    /\ UNCHANGED <<lpc, queue, cur, retval, log, lastWrite, browserOpen, browserClose, closeCount>>

RespondOk ==
    /\ pc = "respond_ok"
    /\ Respond(OkResponse)
    /\ pc' = "close"
    /\ UNCHANGED <<lpc, queue, result, retval, browserOpen, browserClose, closeCount>>

\* a success branch without the break: the loop goes on accepting
CloseBrowser_continue ==
    /\ pc = "close"
    /\ \E ok \in BOOLEAN : browserClose' = IF ok THEN "spawned" ELSE "failed"
    /\ closeCount' = closeCount + 1
    /\ pc' = "accept"
    /\ UNCHANGED <<lpc, queue, cur, result, retval, log, lastWrite, browserOpen>>

\* a close command whose spawn error is unwrapped instead of dropped
CloseBrowser_unwrap ==
    /\ pc = "close"
    /\ \E ok \in BOOLEAN :
          /\ browserClose' = IF ok THEN "spawned" ELSE "failed"
          /\ pc' = IF ok THEN "return" ELSE "panicked"
    /\ closeCount' = closeCount + 1
    /\ UNCHANGED <<lpc, queue, cur, result, retval, log, lastWrite, browserOpen>>

CloseBrowser ==
    /\ pc = "close"
    /\ \E ok \in BOOLEAN : browserClose' = IF ok THEN "spawned" ELSE "failed"
    /\ closeCount' = closeCount + 1
    /\ pc' = "return"
    /\ UNCHANGED <<lpc, queue, cur, result, retval, log, lastWrite, browserOpen>>

\* a handler that gives up the loop when the 400 cannot be written
HandlePostInvalid_abortOnWriteError ==
    /\ pc = "handle"
    /\ Route(cur) = "update"
    /\ ~Decode(cur.body).ok
    /\ log' = Append(log, [req |-> cur, resp |-> InvalidResponse])
    /\ cur' = NoReq
    /\ \E w \in BOOLEAN :
          /\ lastWrite' = IF w THEN "written" ELSE "failed"
          /\ pc' = IF w THEN "accept" ELSE "return"
    /\ UNCHANGED <<lpc, queue, result, retval, browserOpen, browserClose, closeCount>>

HandlePostInvalid ==
    /\ pc = "handle"
    /\ Route(cur) = "update"
    /\ ~Decode(cur.body).ok
    /\ Respond(InvalidResponse)
    /\ pc' = "accept"
    /\ UNCHANGED <<lpc, queue, result, retval, browserOpen, browserClose, closeCount>>

HandleOptions ==
    /\ pc = "handle"
    /\ Route(cur) = "preflight"
    /\ Respond(OptionsResponse)
    /\ pc' = "accept"
    /\ UNCHANGED <<lpc, queue, result, retval, browserOpen, browserClose, closeCount>>

\* a handler that stops waiting once an unknown route is asked for
HandleNotFound_giveUp ==
    /\ pc = "handle"
    /\ Route(cur) = "not_found"
    /\ Respond(NotFoundResponse)
    /\ pc' = "return"
    /\ UNCHANGED <<lpc, queue, result, retval, browserOpen, browserClose, closeCount>>

HandleNotFound ==
    /\ pc = "handle"
    /\ Route(cur) = "not_found"
    /\ Respond(NotFoundResponse)
    /\ pc' = "accept"
    /\ UNCHANGED <<lpc, queue, result, retval, browserOpen, browserClose, closeCount>>

\* a return that forgets the recorded result
Return_empty ==
    /\ pc = "return"
    /\ retval' = <<>>
    /\ pc' = "done"
    /\ UNCHANGED <<lpc, queue, cur, result, log, lastWrite, browserOpen, browserClose, closeCount>>

Return ==
    /\ pc = "return"
    /\ retval' = IF result.some THEN result.val ELSE <<>>
    /\ pc' = "done"
    /\ UNCHANGED <<lpc, queue, cur, result, log, lastWrite, browserOpen, browserClose, closeCount>>

Next ==
    \/ SpawnLauncher
    \/ LaunchBrowser
    \/ Bind
    \/ Arrive
    \/ Recv
    \/ StreamEnd
    \/ HandleGet
    \/ HandlePostOk
    \/ RespondOk
    \/ CloseBrowser
    \/ HandlePostInvalid
    \/ HandleOptions
    \/ HandleNotFound
    \/ Return

\* the steps of the caller's thread: straight-line blocking code that goes on
\* whenever it can
CallerStep ==
    \/ SpawnLauncher
    \/ Bind
    \/ Recv
    \/ HandleGet
    \/ HandlePostOk
    \/ RespondOk
    \/ CloseBrowser
    \/ HandlePostInvalid
    \/ HandleOptions
    \/ HandleNotFound
    \/ Return

Spec == Init /\ [][Next]_vars

(* ------------------------------------------------ vocabulary of the claims *)
IsUpdatePost(r) == r.method = "POST" /\ r.url = "/update"

IsNumber(t)  == t.k \in {"int", "float"}
IsInteger(t) == t.k = "int"

\* the number a JSON literal denotes, in the fixed-point unit
NumberOf(t) == IF t.k = "int" THEN t.v * Scale ELSE t.v

Named(b, f) == { m \in b.members : m[1] = f }

\* a JSON object with the four members of the Coordinate Model, once each:
\* three numbers and an integer capture time
WellFormed(b) ==
    /\ b.kind = "object"
    /\ \A f \in Fields : Cardinality(Named(b, f)) = 1
    /\ \A m \in b.members : m[1] \in Fields \ {"timestamp"} => IsNumber(m[2])
    /\ \A m \in b.members : m[1] = "timestamp" => IsInteger(m[2])

\* the same four values as a JSON array, in declaration order
Positional(b) ==
    /\ b.kind = "array"
    /\ Len(b.elems) = 4
    /\ \A i \in 1..3 : IsNumber(b.elems[i])
    /\ IsInteger(b.elems[4])

\* not JSON, or an object without a numeric member for some required field
Rejectable(b) ==
    \/ b.kind = "garbage"
    \/ /\ b.kind = "object"
       /\ \E f \in Fields : ~ \E m \in Named(b, f) : IsNumber(m[2])

PostedOf(b, f) == NumberOf((CHOOSE m \in b.members : m[1] = f)[2])

PostedVec(b) ==
    IF b.kind = "array"
    THEN <<NumberOf(b.elems[1]), NumberOf(b.elems[2]), NumberOf(b.elems[3])>>
    ELSE <<PostedOf(b, "latitude"), PostedOf(b, "longitude"), PostedOf(b, "accuracy")>>

ValidReport(r) == IsUpdatePost(r) /\ (WellFormed(r.body) \/ Positional(r.body))

Success200 ==
    [status |-> 200, body |-> "{\"status\":\"ok\"}",
     headers |-> {<<"Content-Type", "application/json">>, <<"Access-Control-Allow-Origin", "*">>}]

Invalid400 == [status |-> 400, body |-> "Invalid JSON", headers |-> {}]

NotFound404 == [status |-> 404, body |-> "Not Found", headers |-> {}]

Preflight200 ==
    [status |-> 200, body |-> "",
     headers |-> {<<"Access-Control-Allow-Origin", "*">>,
                  <<"Access-Control-Allow-Methods", "POST, OPTIONS">>,
                  <<"Access-Control-Allow-Headers", "Content-Type">>}]

Page200 ==
    [status |-> 200, body |-> HTML_CONTENT,
     headers |-> {<<"Content-Type", "text/html; charset=utf-8">>}]

\* the loop moved on from the request it was handling
LoopStep == pc' # pc

(* ------------------------------------------------------------------ C1 *)
\* C1: every well-formed report handled by POST /update is answered 200 with
\* body {"status":"ok"}, Content-Type application/json and
\* Access-Control-Allow-Origin: *, the result slot holds
\* [latitude, longitude, accuracy] of that report, and that vector (without
\* the timestamp) is what where_i_am returns.
C1_ReportAccepted ==
    /\ \A i \in DOMAIN log :
          (IsUpdatePost(log[i].req) /\ WellFormed(log[i].req.body)) =>
              /\ log[i].resp = Success200
              /\ result = Some(PostedVec(log[i].req.body))
              /\ pc = "done" => retval = PostedVec(log[i].req.body)
    /\ (pc = "respond_ok" /\ WellFormed(cur.body)) => result = Some(PostedVec(cur.body))

C1_Witness ==
    /\ pc = "done"
    /\ retval = <<375665, 1269780, 125000>>
    /\ \E i \in DOMAIN log :
          /\ log[i].req = Req("POST", "/update", "application/json", Object(SeoulReport))
          /\ log[i].resp.status = 200

(* ------------------------------------------------------------------ C2 *)
C2_Rejected ==
    \A i \in DOMAIN log :
        (IsUpdatePost(log[i].req) /\ Rejectable(log[i].req.body)) => log[i].resp = Invalid400

C2_RejectStep ==
    (pc = "handle" /\ IsUpdatePost(cur) /\ Rejectable(cur.body) /\ LoopStep) =>
        /\ log' = Append(log, [req |-> cur, resp |-> Invalid400])
        /\ pc' = "accept"
        /\ result = None /\ result' = None

C2_AcceptAfterRejects ==
    (pc = "handle" /\ IsUpdatePost(cur) /\ WellFormed(cur.body) /\ LoopStep
        /\ \E i \in DOMAIN log : log[i].resp = Invalid400) =>
        /\ pc' = "respond_ok"
        /\ result' = Some(PostedVec(cur.body))

C2_Completes ==
    /\ (pc = "respond_ok" /\ LoopStep) =>
            (pc' = "close" /\ log' = Append(log, [req |-> cur, resp |-> Success200]))
    /\ (pc = "close" /\ LoopStep) => pc' = "return"
    /\ (pc = "return" /\ LoopStep) => (pc' = "done" /\ (result.some => retval' = result.val))

Successes == { i \in DOMAIN log : IsUpdatePost(log[i].req) /\ log[i].resp.status = 200 }

C3_FirstValidWins ==
    /\ Cardinality(Successes) <= 1
    /\ result.some =>
          \E i \in DOMAIN Received :
              /\ ValidReport(Received[i])
              /\ \A j \in 1..(i - 1) : ~ValidReport(Received[j])
              /\ result.val = PostedVec(Received[i].body)

C3_AssignedOnce ==
    /\ result.some => result' = result
    /\ pc = "done" => (retval' = retval /\ pc' = "done")

\* C3: the result is assigned at most once, by the first valid POST /update
\* in receipt order, and no later step changes it or the returned vector.
C3_SingleAssignment ==
    /\ []C3_FirstValidWins
    /\ [][C3_AssignedOnce]_vars

C3_Witness ==
    /\ pc = "done"
    /\ Len(log) = 2
    /\ ~ValidReport(log[1].req)
    /\ ValidReport(log[2].req)
    /\ queue # <<>>
    /\ ValidReport(queue[1])
    /\ queue[1].body # log[2].req.body
    /\ retval = PostedVec(log[2].req.body)

(* ------------------------------------------------------------------ C4 *)
IsPrefix(s, t) == Len(s) <= Len(t) /\ \A i \in DOMAIN s : s[i] = t[i]

\* C4: from the moment a valid POST /update has been taken up, nothing more is
\* dequeued or answered except the answer to that request itself; requests
\* already queued stay queued.
C4_NoRequestAfterSuccess ==
    [][result.some =>
          /\ IsPrefix(queue, queue')
          /\ cur' \in {cur, NoReq}
          /\ \/ log' = log
             \/ pc = "respond_ok" /\ log' = Append(log, [req |-> cur, resp |-> Success200])
          /\ pc' # "accept" /\ pc' # "handle"]_vars

C4_Witness ==
    /\ pc = "done"
    /\ Len(log) = 1
    /\ log[1].resp = Success200
    /\ Len(queue) = 2
    /\ ValidReport(queue[1])
    /\ queue[2].method = "GET"

(* ------------------------------------------------------------------ C5 *)
\* C5: whenever the loop has been left through the success branch, the 200
\* response of the triggering report has already been issued: it is the last
\* entry of the log and no request is left in handling.
C5_RespondBeforeCompleted ==
    SessionState = "Completed" =>
        /\ cur = NoReq
        /\ Len(log) > 0
        /\ log[Len(log)].resp = Success200
        /\ ValidReport(log[Len(log)].req)
        /\ result.val = PostedVec(log[Len(log)].req.body)

C5_Witness ==
    /\ pc = "return"
    /\ SessionState = "Completed"
    /\ log[Len(log)].resp = Success200
    /\ lastWrite = "written"

(* ------------------------------------------------------------------ C6 *)
\* C6: every OPTIONS /update the loop handles is answered 200 with an empty
\* body and the three CORS headers, whatever was handled before it, and the
\* session keeps serving.
C6_Preflight ==
    /\ [](\A i \in DOMAIN log :
            (log[i].req.method = "OPTIONS" /\ log[i].req.url = "/update") =>
                log[i].resp = Preflight200)
    /\ [][(pc = "handle" /\ cur.method = "OPTIONS" /\ cur.url = "/update" /\ LoopStep) =>
            /\ log' = Append(log, [req |-> cur, resp |-> Preflight200])
            /\ pc' = "accept"
            /\ result' = result]_vars

C6_Witness ==
    /\ Len(log) = 3
    /\ log[1].resp.status = 400
    /\ log[2].resp.status = 404
    /\ log[3].req = Req("OPTIONS", "/update", "", NoBody)
    /\ log[3].resp = Preflight200

(* ------------------------------------------------------------------ C7 *)
\* C7: every GET / the loop handles is answered 200 with
\* Content-Type text/html; charset=utf-8 and the same page, however many times
\* it is asked and whatever was handled in between.
C7_SamePage ==
    \A i \in DOMAIN log :
        (log[i].req.method = "GET" /\ log[i].req.url = "/") => log[i].resp = Page200

C7_Witness ==
    /\ Len(log) = 3
    /\ log[1].req = Req("GET", "/", "", NoBody)
    /\ log[2].resp.status = 400
    /\ log[3].req = Req("GET", "/", "", NoBody)
    /\ log[3].resp = log[1].resp

(* ------------------------------------------------------------------ C8 *)
Defined(r) ==
    <<r.method, r.url>> \in { <<"GET", "/">>, <<"POST", "/update">>, <<"OPTIONS", "/update">> }

\* C8: a request outside the three defined routes is answered 404 Not Found
\* and leaves the session serving with the result unchanged.
C8_NotFound ==
    /\ [](\A i \in DOMAIN log : ~Defined(log[i].req) => log[i].resp = NotFound404)
    /\ [][(pc = "handle" /\ ~Defined(cur) /\ LoopStep) =>
            /\ log' = Append(log, [req |-> cur, resp |-> NotFound404])
            /\ pc' = "accept"
            /\ result' = result
            /\ result = None]_vars

C8_Witness ==
    /\ Len(log) = 3
    /\ log[1].req = Req("GET", "/update", "", NoBody)
    /\ log[2].req = Req("POST", "/", "application/json", Object(SeoulReport))
    /\ log[3].req = Req("OPTIONS", "/other", "", NoBody)
    /\ \A i \in 1..3 : log[i].resp = NotFound404
    /\ pc = "accept"
    /\ result = None

(* ------------------------------------------------------------------ C9 *)
\* C9: a POST /update with a content type other than application/json is
\* answered 400 and does not complete the session, even when its body is a
\* valid report.
C9_WrongContentTypeRejected ==
    /\ \A i \in DOMAIN log :
          (IsUpdatePost(log[i].req) /\ log[i].req.ctype # "application/json") =>
              log[i].resp.status = 400
    /\ (pc = "respond_ok") => cur.ctype = "application/json"

(* ----------------------------------------------------------------- C10 *)
InRange(v) ==
    /\ v[1] >= -90 * Scale /\ v[1] <= 90 * Scale
    /\ v[2] >= -180 * Scale /\ v[2] <= 180 * Scale
    /\ v[3] >= 0

\* C10: a report accepted as the Session Result has latitude in [-90, 90],
\* longitude in [-180, 180] and accuracy >= 0.
C10_ResultInRange == result.some => InRange(result.val)

(* ----------------------------------------------------------------- C11 *)
\* what the loop does next after answering, whatever became of the write
AfterAnswer == IF pc = "respond_ok" THEN "close" ELSE "accept"

C11_AnswerStep ==
    (log' # log) =>
        /\ lastWrite' \in {"written", "failed"}
        /\ pc' = AfterAnswer
        /\ result' = result
        /\ queue' = queue
        /\ retval' = retval

C11_FailedWriteGoesOn ==
    /\ (lastWrite = "failed" /\ pc = "accept") => SessionState = "Serving"
    /\ (lastWrite = "failed" /\ pc \in {"close", "return", "done"} /\ log # <<>>
            /\ log[Len(log)].resp = Success200) =>
                result = Some(PostedVec(log[Len(log)].req.body))
    /\ (lastWrite = "failed" /\ pc = "done" /\ result.some) => retval = result.val

\* C11: a failed response write changes nothing but the fate of that response:
\* after answering, the loop is where it would be after a successful write
\* (serving again, or on the way out after the accepted report) with the same
\* result, and an accepted report is still recorded and returned.
C11_WriteFailureIgnored ==
    /\ []C11_FailedWriteGoesOn
    /\ [][C11_AnswerStep]_vars

C11_Witness ==
    /\ pc = "done"
    /\ lastWrite = "failed"
    /\ Len(log) = 2
    /\ log[1].resp.status = 400
    /\ log[2].resp = Success200
    /\ retval = <<375665, 1269780, 125000>>

(* ----------------------------------------------------------------- C12 *)
\* the claim as stated: the call never leaves the loop, nor returns, while no
\* valid report has been handled
C12_NeverReturnsWithoutReport == LoopExited => result.some

C12_ExitStep ==
    /\ (pc = "handle" /\ ~ValidReport(cur) /\ LoopStep) => (pc' = "accept" /\ result' = result)
    /\ (~LoopExited /\ LoopExited') =>
            \/ pc = "close" /\ result.some
            \/ pc = "accept" /\ ~result.some /\ log' = log /\ cur' = cur /\ queue' = queue

\* C12 (amended): handling a GET /, an OPTIONS /update, an undefined route or
\* an invalid POST never ends the loop; the loop is left either after an
\* accepted report, or, with no result, when the incoming request stream
\* itself ends. No other step (timeout, cancellation) leaves it.
C12_OnlyReportOrStreamEnd ==
    /\ [](\A i \in DOMAIN log : (~ValidReport(log[i].req) /\ ~result.some /\ i = Len(log)
                                    /\ pc \in {"accept", "handle"}) => SessionState = "Serving")
    /\ [][C12_ExitStep]_vars

C12_Witness ==
    /\ pc = "accept"
    /\ Len(log) = 3
    /\ log[1].req.method = "GET" /\ log[1].req.url = "/"
    /\ log[2].resp.status = 400
    /\ log[3].resp.status = 404
    /\ result = None

(* ----------------------------------------------------------------- C13 *)
C13_BindStep ==
    /\ pc = "bind" => pc' \in {"bind", "accept", "panicked"}
    /\ pc = "panicked" => UNCHANGED <<pc, queue, cur, result, retval, log, lastWrite, browserClose, closeCount>>
    /\ pc' = "panicked" => pc \in {"bind", "panicked"}

\* C13: when the bind fails the call panics: it never serves a request, never
\* records or returns a result (not even the empty vector), and never binds
\* again.
C13_BindFailureFatal ==
    /\ [](pc = "panicked" =>
            /\ log = <<>> /\ queue = <<>> /\ cur = NoReq
            /\ result = None /\ retval = <<>>
            /\ lastWrite = "none" /\ closeCount = 0)
    /\ [][C13_BindStep]_vars

C13_Witness ==
    /\ pc = "panicked"
    /\ lpc = "done"
    /\ log = <<>>

(* ----------------------------------------------------------------- C14 *)
PageServes == { i \in DOMAIN log : log[i].resp = Page200 }

\* the claim as stated: over a session the page is served exactly once
C14_PageServedExactlyOnce ==
    /\ Cardinality(PageServes) <= 1
    /\ pc = "done" => Cardinality(PageServes) = 1

\* C14 (amended): the page is served once for every GET / the loop handles and
\* for no other request, so a session serves it as many times as it is asked
\* for: possibly never, possibly more than once.
C14_PageServedPerGet ==
    PageServes = { i \in DOMAIN log : log[i].req.method = "GET" /\ log[i].req.url = "/" }

C14_Witness ==
    /\ pc = "done"
    /\ Len(log) = 3
    /\ PageServes = {1, 2}
    /\ log[3].resp = Success200

(* ----------------------------------------------------------------- C15 *)
\* the protocol as a function of the requests alone
ExpectedResponse(r) ==
    CASE r.method = "GET" /\ r.url = "/"            -> Page200
      [] r.method = "OPTIONS" /\ r.url = "/update"  -> Preflight200
      [] IsUpdatePost(r) /\ ValidReport(r)          -> Success200
      [] IsUpdatePost(r) /\ ~ValidReport(r)         -> Invalid400
      [] OTHER                                      -> NotFound404

ExpectedResult(rs) ==
    IF \E i \in DOMAIN rs : ValidReport(rs[i])
    THEN LET i == CHOOSE k \in DOMAIN rs :
                      ValidReport(rs[k]) /\ \A j \in 1..(k - 1) : ~ValidReport(rs[j])
         IN  [some |-> TRUE, val |-> PostedVec(rs[i].body)]
    ELSE [some |-> FALSE, val |-> <<>>]

\* the requests whose handling has reached the result slot
TakenUp == Handled \o (IF pc = "respond_ok" THEN <<cur>> ELSE <<>>)

C15_FunctionOfRequests ==
    /\ \A i \in DOMAIN log : log[i].resp = ExpectedResponse(log[i].req)
    /\ result = ExpectedResult(TakenUp)
    /\ pc = "done" => retval = ExpectedResult(Handled).val
    /\ pc = "close" => ENABLED CloseBrowser

C15_SideEffectStep ==
    /\ (browserOpen' # browserOpen) =>
            UNCHANGED <<pc, queue, cur, result, retval, log, lastWrite>>
    /\ (browserClose' # browserClose) =>
            /\ pc = "close" /\ pc' = "return"
            /\ UNCHANGED <<queue, cur, result, retval, log, lastWrite>>

\* C15: the responses sent, the result and the returned vector are a function
\* of the handled requests alone, so they are the same whether the browser
\* open and close commands succeed or fail and wherever the launcher runs; the
\* launcher touches no session state, and the close command, whatever its
\* outcome, is followed by the break with the session state untouched.
C15_BrowserUnobservable ==
    /\ []C15_FunctionOfRequests
    /\ [][C15_SideEffectStep]_vars

C15_Witness ==
    /\ pc = "done"
    /\ browserOpen = "failed"
    /\ browserClose = "failed"
    /\ Len(log) = 2
    /\ log[1].resp = Page200
    /\ log[2].resp = Success200
    /\ retval = <<375665, 1269780, 125000>>

FairSpec == Spec /\ WF_vars(CallerStep)

(* ----------------------------------------------------------------- C16 *)
\* a valid report has reached the listener and waits for the loop
ValidDelivered == SessionState = "Serving" /\ \E i \in DOMAIN queue : ValidReport(queue[i])

\* the claim as stated: delivery of a valid report always leads to Completed
C16_DeliveredLeadsToCompleted ==
    ValidDelivered ~> (pc = "done" /\ SessionState = "Completed")

\* C16 (amended): once a valid POST /update has been delivered while the
\* session is serving, where_i_am eventually returns, whatever requests are
\* ahead of it; the session is then Completed, unless the request stream ended
\* while the report was still waiting in the queue.
C16_DeliveredLeadsToReturn ==
    ValidDelivered ~>
        /\ pc = "done"
        /\ \/ SessionState = "Completed" /\ retval = result.val
           \/ SessionState = "Terminated" /\ \E i \in DOMAIN queue : ValidReport(queue[i])

C16_Witness ==
    /\ pc = "done"
    /\ SessionState = "Completed"
    /\ Len(log) = 3
    /\ log[1].resp.status = 404
    /\ log[2].resp.status = 400
    /\ log[3].resp = Success200

(* ----------------------------------------------------------------- C17 *)
C17_OneInHand ==
    /\ (cur # NoReq) <=> (pc \in {"handle", "respond_ok"})
    /\ \A i \in DOMAIN log : log[i].req # NoReq

C17_Step ==
    /\ (cur' # cur /\ cur' # NoReq) =>
            /\ cur = NoReq
            /\ queue # <<>>
            /\ cur' = Head(queue)
            /\ queue' = Tail(queue)
            /\ log' = log
    /\ (cur # NoReq /\ cur' # cur) =>
            /\ cur' = NoReq
            /\ Len(log') = Len(log) + 1
            /\ SubSeq(log', 1, Len(log)) = log
            /\ log'[Len(log')].req = cur
    /\ (log' # log) => (cur # NoReq /\ cur' = NoReq)
    /\ (queue' # queue /\ cur' = cur) => (Len(queue') = Len(queue) + 1 /\ IsPrefix(queue, queue'))

\* C17: the loop has at most one request in hand; it takes the oldest waiting
\* request only when it has none in hand, and lets go of a request only by
\* appending exactly one response for it to the log, so requests are answered
\* one at a time in receipt order.
C17_Sequential ==
    /\ []C17_OneInHand
    /\ [][C17_Step]_vars

C17_Witness ==
    /\ pc = "handle"
    /\ Len(log) = 1
    /\ cur # NoReq
    /\ Len(queue) = 1
    /\ log[1].req # cur
    /\ cur # queue[1]
    /\ log[1].req # queue[1]

(* ----------------------------------------------------------------- C18 *)
\* C18: the launcher runs the open command only when the listener is bound:
\* never before the bind and never after a failed bind.
C18_OpenOnlyAfterBind ==
    [][(browserOpen' # browserOpen) => pc \notin {"spawn", "bind", "panicked"}]_vars

(* ----------------------------------------------------------------- C19 *)
C19_CloseState ==
    /\ closeCount <= 1
    /\ (closeCount = 1) <=> (browserClose # "none")
    /\ closeCount = 1 =>
            /\ result.some
            /\ log # <<>>
            /\ log[Len(log)].resp = Success200
            /\ \A i \in 1..(Len(log) - 1) : log[i].resp # Success200

C19_CloseStep ==
    (closeCount' # closeCount \/ browserClose' # browserClose) =>
        /\ closeCount = 0 /\ closeCount' = 1
        /\ pc = "close"
        /\ log' = log
        /\ log # <<>>
        /\ log[Len(log)].resp = Success200
        /\ ValidReport(log[Len(log)].req)

\* C19: the close command is issued at most once, on the success path only, and
\* after the 200 response of the accepted report has been issued; no other
\* route issues it.
C19_CloseOnce ==
    /\ []C19_CloseState
    /\ [][C19_CloseStep]_vars

C19_Witness ==
    /\ closeCount = 1
    /\ pc = "done"
    /\ Len(log) = 3
    /\ log[1].resp = Page200
    /\ log[2].resp = Invalid400
    /\ log[3].resp = Success200

(* ----------------------------------------------------------------- C20 *)
\* C20: where_i_am returns a non-empty vector exactly when a report was
\* accepted; that vector has three elements, and the empty vector is returned
\* only when the loop ended with no report accepted.
C20_NonEmptyIffAccepted ==
    pc = "done" =>
        /\ (retval # <<>>) <=> (Successes # {})
        /\ (retval # <<>>) <=> result.some
        /\ Successes # {} => (Len(retval) = 3 /\ retval = PostedVec(log[Len(log)].req.body))
        /\ retval = <<>> => \A i \in DOMAIN log : ~ValidReport(log[i].req)

C20_Witness ==
    /\ pc = "done"
    /\ retval = <<>>
    /\ Len(log) = 2
    /\ log[1].resp = Page200
    /\ log[2].resp = Invalid400
    /\ queue # <<>>
    /\ ValidReport(queue[1])

====
